---- MODULE Spec2Model ----
(***************************************************************************)
(* A model of the point buffer of VMobject                                 *)
(* (manim/mobject/types/vectorized_mobject.py): the flat array of cubic    *)
(* Bezier control points, the operations that grow and replace it, subpath *)
(* segmentation, curve subdivision, alignment of two buffers and partial   *)
(* curve extraction; and of its style arrays: their stretching, their      *)
(* alignment and the interpolation of styles.                              *)
(*                                                                         *)
(* Coordinates are exact rationals <<numerator, denominator>> (reduced,    *)
(* denominator > 0); a point is a triple of coordinates.  The floating     *)
(* point arithmetic of numpy is modelled by exact arithmetic.              *)
(***************************************************************************)
EXTENDS Integers, Sequences, FiniteSets

VARIABLES self_points, vmobject_points, call, nops,
          self_style, vmobject_style, mobject2_style, shared

vars == <<self_points, vmobject_points, call, nops,
          self_style, vmobject_style, mobject2_style, shared>>

(* The styles of self, of vmobject and of a third mobject, mobject2, and   *)
(* the rgba attributes of self whose array is the array of mobject2 itself *)
styles == <<self_style, vmobject_style, mobject2_style, shared>>

----------------------------------------------------------------------------
(* Exact rational arithmetic                                               *)

Abs(x) == IF x < 0 THEN -x ELSE x

Max(x, y) == IF x >= y THEN x ELSE y

RECURSIVE GCD(_, _)
GCD(x, y) == IF y = 0 THEN x ELSE GCD(y, x % y)

Rat(n, d) ==
    LET s == IF d < 0 THEN -1 ELSE 1
        g == GCD(Abs(n), Abs(d))
    IN  <<(s * n) \div g, (s * d) \div g>>

R(k) == <<k, 1>>

RAdd(x, y) ==
    LET g == GCD(x[2], y[2])
    IN  Rat(x[1] * (y[2] \div g) + y[1] * (x[2] \div g), x[2] * (y[2] \div g))

RNeg(x) == <<-x[1], x[2]>>

RSub(x, y) == RAdd(x, RNeg(y))

RMul(x, y) ==
    LET g1 == GCD(Abs(x[1]), y[2])
        g2 == GCD(Abs(y[1]), x[2])
    IN  Rat((x[1] \div g1) * (y[1] \div g2), (x[2] \div g2) * (y[2] \div g1))

RDiv(x, y) == RMul(x, <<y[2], y[1]>>)

RAbs(x) == <<Abs(x[1]), x[2]>>

(* n1/d1 <= n2/d2 for non-negative fractions, by comparing integer parts   *)
(* and then the reciprocals of the fractional parts (no products).         *)
RECURSIVE FracLe(_, _, _, _)
FracLe(n1, d1, n2, d2) ==
    LET q1 == n1 \div d1
        q2 == n2 \div d2
        r1 == n1 % d1
        r2 == n2 % d2
    IN  IF q1 # q2 THEN q1 < q2
        ELSE IF r1 = 0 THEN TRUE
        ELSE IF r2 = 0 THEN FALSE
        ELSE FracLe(d2, r2, d1, r1)

RLe(x, y) ==
    IF x[1] < 0 /\ y[1] >= 0 THEN TRUE
    ELSE IF x[1] >= 0 /\ y[1] < 0 THEN FALSE
    ELSE IF x[1] >= 0 THEN FracLe(x[1], x[2], y[1], y[2])
    ELSE FracLe(-y[1], y[2], -x[1], x[2])

RLt(x, y) == ~RLe(y, x)

(* int(x) of python for x >= 0, and math.floor in general                  *)
RFloor(x) == x[1] \div x[2]

----------------------------------------------------------------------------
(* Points and the helpers of utils.bezier                                  *)

Pt(x, y, z) == <<R(x), R(y), R(z)>>

PAdd(p, q) == [i \in 1..3 |-> RAdd(p[i], q[i])]

PSub(p, q) == [i \in 1..3 |-> RSub(p[i], q[i])]

PScale(t, p) == [i \in 1..3 |-> RMul(t, p[i])]

PDot(p, q) == RAdd(RAdd(RMul(p[1], q[1]), RMul(p[2], q[2])), RMul(p[3], q[3]))

ORIGIN == Pt(0, 0, 0)

(* (1 - alpha) * start + alpha * end                                       *)
interpolate(start, end, alpha) ==
    PAdd(PScale(RSub(R(1), alpha), start), PScale(alpha, end))

(* bezier(points)(t): the Bezier curve on the control points, evaluated by *)
(* repeated linear interpolation (de Casteljau).                           *)
RECURSIVE bezier(_, _)
bezier(points, t) ==
    IF Len(points) = 1 THEN points[1]
    ELSE bezier([i \in 1..(Len(points) - 1) |->
                    interpolate(points[i], points[i + 1], t)], t)

(* splitCurve(quad, a, b), 0 <= a <= b <= 1: the control points of the     *)
(* curve restricted to [a, b].  First pass trims the upper bound (the      *)
(* curve on [0, b]); the second rescales a to a / b and trims the lower    *)
(* bound of the result.                                                    *)
partial_bezier_points(points, a, b) ==
    LET n == Len(points)
        upper == [i \in 1..n |-> bezier(SubSeq(points, 1, i), b)]
    IN  IF b[1] = 0 THEN upper
        ELSE [i \in 1..n |-> bezier(SubSeq(upper, i, n), RDiv(a, b))]

(* integer_interpolate(start, end, alpha) = (index, residue) with          *)
(* index = min(floor(alpha * n), n - 1) past start and residue the rest,   *)
(* alpha = 1 giving (end - 1, 1).                                          *)
integer_interpolate(start, end, alpha) ==
    LET n == end - start
        x == RMul(alpha, R(n))
        fl == RFloor(x)
        index == IF fl <= n - 1 THEN fl ELSE n - 1
    IN  <<start + index, RSub(x, R(index))>>

----------------------------------------------------------------------------
(* Sequence helpers                                                        *)

RECURSIVE Flatten(_)
Flatten(seqs) ==
    IF seqs = <<>> THEN <<>> ELSE Head(seqs) \o Flatten(Tail(seqs))

(* points[i1:i2] of python, 0 <= i1 <= i2 <= len(points)                   *)
Slice(points, i1, i2) == SubSeq(points, i1 + 1, i2)

(* [x] * k                                                                 *)
Repeat(x, k) == [i \in 1..k |-> x]

(* list(filter(f, range(lo, hi, step))), f given as the set it accepts     *)
RECURSIVE FilterRange(_, _, _, _)
FilterRange(accepted, lo, hi, step) ==
    IF lo >= hi THEN <<>>
    ELSE (IF lo \in accepted THEN <<lo>> ELSE <<>>)
             \o FilterRange(accepted, lo + step, hi, step)

----------------------------------------------------------------------------
(* Configuration and queries of VMobject                                   *)

n_points_per_cubic_curve == 4

(* tolerance_for_point_equality = 1e-6 and the default rtol = 1e-5 of      *)
(* np.allclose, as 1 / AtolInv and 1 / RtolInv                             *)
AtolInv == 1000000

RtolInv == 100000

(* |a - b| <= atol + rtol * |b|.  Both sides are multiplied by AtolInv,    *)
(* half of the factor on each side, to keep the integers small.            *)
isclose(a, b) ==
    LET diff == RAbs(RSub(a, b))
        bound == RAdd(R(1), RMul(R(AtolInv \div RtolInv), RAbs(b)))
    IN  RLe(RMul(R(1000), diff), RDiv(bound, R(AtolInv \div 1000)))

consider_points_equals(p0, p1) == \A i \in 1..3 : isclose(p0[i], p1[i])

has_no_points(points) == Len(points) = 0

has_new_path_started(points) == Len(points) % n_points_per_cubic_curve = 1

get_last_point(points) == points[Len(points)]

get_num_points(points) == Len(points)

(* The quads of a point list; a trailing remainder is dropped.             *)
get_cubic_bezier_tuples_from_points(points) ==
    LET nppcc == n_points_per_cubic_curve
        remainder == Len(points) % nppcc
        pts == Slice(points, 0, Len(points) - remainder)
    IN  [k \in 1..(Len(pts) \div nppcc) |-> Slice(pts, nppcc * (k - 1), nppcc * k)]

get_num_curves(points) == Len(points) \div n_points_per_cubic_curve

(* Subpaths: split at every multiple of nppcc that filter_func accepts,    *)
(* and keep the runs of at least nppcc points.  filter_func is given as    *)
(* the set of the indices n (counted from 0) that it accepts.              *)
split_indices_of(points, filter_func) ==
    LET nppcc == n_points_per_cubic_curve
    IN  <<0>> \o FilterRange(filter_func, nppcc, Len(points), nppcc) \o <<Len(points)>>

gen_subpaths_from_points(points, filter_func) ==
    LET nppcc == n_points_per_cubic_curve
        split_indices == split_indices_of(points, filter_func)
        pairs == [j \in 1..(Len(split_indices) - 1) |->
                    <<split_indices[j], split_indices[j + 1]>>]
        kept == SelectSeq(pairs, LAMBDA pr : (pr[2] - pr[1]) >= nppcc)
    IN  [j \in 1..Len(kept) |-> Slice(points, kept[j][1], kept[j][2])]

(* Variant: the two points compared sit one place too far along           *)
get_subpaths_from_points_shifted(points) ==
    gen_subpaths_from_points(points,
        {n \in 1..(Len(points) - 2) :
            ~consider_points_equals(points[n + 1], points[n + 2])})

(* lambda n: not consider_points_equals(points[n - 1], points[n])          *)
get_subpaths_from_points(points) ==
    gen_subpaths_from_points(points,
        {n \in 1..(Len(points) - 1) :
            ~consider_points_equals(points[n], points[n + 1])})

get_subpaths(points) == get_subpaths_from_points(points)

----------------------------------------------------------------------------
(* Curve subdivision                                                       *)

(* Variant: the indices run from 1, np.arange(1, target_num + 1)           *)
repeat_indices_from_one(curr_num, target_num) ==
    [i \in 1..target_num |-> (i * curr_num) \div target_num]

(* Variant: every extra curve goes to the last quad                        *)
repeat_indices_clipped(curr_num, target_num) ==
    [i \in 1..target_num |-> IF i - 1 < curr_num THEN i - 1 ELSE curr_num - 1]

(* (np.arange(target_num) * curr_num) // target_num, as a sequence         *)
repeat_indices(curr_num, target_num) ==
    [i \in 1..target_num |-> ((i - 1) * curr_num) \div target_num]

(* split_factors[k] = sum(repeat_indices == k), k in range(curr_num)       *)
split_factors(curr_num, target_num) ==
    LET ri == repeat_indices(curr_num, target_num)
    IN  [k \in 1..curr_num |-> Cardinality({i \in 1..target_num : ri[i] = k - 1})]

(* The sf pieces of one quad: partial_bezier_points on adjacent pairs of   *)
(* np.linspace(0, 1, sf + 1)                                               *)
split_quad(quad, sf) ==
    Flatten([j \in 1..sf |-> partial_bezier_points(quad, Rat(j - 1, sf), Rat(j, sf))])

(* Variant: the single point is repeated n times, not nppcc * n times      *)
insert_n_curves_to_point_list_repeat_n(n, points) ==
    IF Len(points) = 1
    THEN Repeat(points[1], n)
    ELSE LET bezier_quads == get_cubic_bezier_tuples_from_points(points)
             curr_num == Len(bezier_quads)
             target_num == curr_num + n
             sfs == split_factors(curr_num, target_num)
         IN  Flatten([k \in 1..curr_num |-> split_quad(bezier_quads[k], sfs[k])])

insert_n_curves_to_point_list(n, points) ==
    IF Len(points) = 1
    THEN Repeat(points[1], n_points_per_cubic_curve * n)
    ELSE LET bezier_quads == get_cubic_bezier_tuples_from_points(points)
             curr_num == Len(bezier_quads)
             target_num == curr_num + n
             sfs == split_factors(curr_num, target_num)
         IN  Flatten([k \in 1..curr_num |-> split_quad(bezier_quads[k], sfs[k])])

----------------------------------------------------------------------------
(* The point-buffer operations.  Each takes the buffer before the call and *)
(* gives the buffer after it and whether the call raised.                  *)

Ok(points) == [points |-> points, raised |-> FALSE]

Raise(points) == [points |-> points, raised |-> TRUE]

set_points(points, new_points) == Ok(new_points)

clear_points(points) == Ok(<<>>)

append_points(points, new_points) == Ok(points \o new_points)

start_new_path(points, point) == append_points(points, <<point>>)

add_cubic_bezier_curve(points, anchor1, handle1, handle2, anchor2) ==
    append_points(points, <<anchor1, handle1, handle2, anchor2>>)

(* Mobject.throw_error_if_no_points: raises on a buffer with no points     *)
throw_error_if_no_points(points) == has_no_points(points)

(* Variant: no check for an empty buffer, which is taken as a started path *)
add_cubic_bezier_curve_to_unchecked(points, handle1, handle2, anchor) ==
    LET new_points == <<handle1, handle2, anchor>>
    IN  IF has_new_path_started(points) \/ has_no_points(points)
        THEN append_points(points, new_points)
        ELSE append_points(points, <<get_last_point(points)>> \o new_points)

add_cubic_bezier_curve_to(points, handle1, handle2, anchor) ==
    IF throw_error_if_no_points(points) THEN Raise(points)
    ELSE LET new_points == <<handle1, handle2, anchor>>
         IN  IF has_new_path_started(points)
             THEN append_points(points, new_points)
             ELSE append_points(points, <<get_last_point(points)>> \o new_points)

(* Variant: the handles are placed at 1/4 and 2/4 of the way               *)
add_line_to_quarters(points, point) ==
    IF Len(points) = 0 THEN Raise(points)
    ELSE LET last == get_last_point(points)
         IN  add_cubic_bezier_curve_to(points,
                 interpolate(last, point, Rat(1, 4)),
                 interpolate(last, point, Rat(2, 4)),
                 interpolate(last, point, R(1)))

(* The arguments are computed first: get_last_point indexes points[-1],    *)
(* which raises on an empty buffer.  np.linspace(0, 1, nppcc)[1:] is       *)
(* 1/3, 2/3, 1.                                                            *)
add_line_to(points, point) ==
    IF Len(points) = 0 THEN Raise(points)
    ELSE LET last == get_last_point(points)
             nppcc == n_points_per_cubic_curve
         IN  add_cubic_bezier_curve_to(points,
                 interpolate(last, point, Rat(1, nppcc - 1)),
                 interpolate(last, point, Rat(2, nppcc - 1)),
                 interpolate(last, point, Rat(3, nppcc - 1)))

(* rotate_vector(v, PI, axis): the half turn of v about the axis,          *)
(* 2 * (v . u) / (u . u) * u - v; about a zero axis the half turn is taken *)
(* about the z axis.                                                       *)
rotate_vector_PI(v, axis) ==
    LET uu == PDot(axis, axis)
    IN  IF uu[1] = 0 THEN <<RNeg(v[1]), RNeg(v[2]), v[3]>>
        ELSE PSub(PScale(RDiv(RMul(R(2), PDot(v, axis)), uu), axis), v)

(* Variant: of three or more points the last two are used                  *)
add_smooth_curve_to_last_two(points, args) ==
    IF Len(args) = 0 THEN Raise(points)
    ELSE LET new_anchor == args[Len(args)]
         IN  IF has_new_path_started(points) THEN add_line_to(points, new_anchor)
             ELSE IF throw_error_if_no_points(points) THEN Raise(points)
             ELSE LET last_a2 == points[Len(points)]
                      handle1 == PAdd(last_a2, PSub(last_a2, points[Len(points) - 1]))
                      handle2 == IF Len(args) >= 2 THEN args[Len(args) - 1]
                                 ELSE new_anchor
                  IN  append_points(points, <<last_a2, handle1, handle2, new_anchor>>)

add_smooth_curve_to(points, args) ==
    IF Len(args) # 1 /\ Len(args) # 2 THEN Raise(points)
    ELSE LET new_anchor == args[Len(args)]
         IN  IF has_new_path_started(points) THEN add_line_to(points, new_anchor)
             ELSE IF throw_error_if_no_points(points) THEN Raise(points)
             ELSE LET last_h2 == points[Len(points) - 1]
                      last_a2 == points[Len(points)]
                      last_tangent == PSub(last_a2, last_h2)
                      handle1 == PAdd(last_a2, last_tangent)
                      to_anchor_vect == PSub(new_anchor, last_a2)
                      new_tangent == rotate_vector_PI(last_tangent, to_anchor_vect)
                      handle2 == IF Len(args) = 2 THEN args[1]
                                 ELSE PSub(new_anchor, new_tangent)
                  IN  append_points(points, <<last_a2, handle1, handle2, new_anchor>>)

(* for point in points: self.add_line_to(point); the first raise ends it   *)
RECURSIVE add_points_as_corners(_, _)
add_points_as_corners(points, corners) ==
    IF corners = <<>> THEN Ok(points)
    ELSE LET r == add_line_to(points, Head(corners))
         IN  IF r.raised THEN r ELSE add_points_as_corners(r.points, Tail(corners))

add_subpath(points, new_points) ==
    IF Len(new_points) % 4 # 0 THEN Raise(points) ELSE Ok(points \o new_points)

(* new_points is a python list; np.append of an empty list onto the 2-D    *)
(* array raises, after the starting point of the new path was removed.     *)
append_vectorized_mobject(points, new_points) ==
    LET kept == IF has_new_path_started(points)
                THEN Slice(points, 0, Len(points) - 1) ELSE points
    IN  IF new_points = <<>> THEN Raise(kept) ELSE append_points(kept, new_points)

(* Variant: the starting point of a new path is not put back               *)
insert_n_curves_drop_last(points, n) ==
    set_points(points, insert_n_curves_to_point_list(n, points))

insert_n_curves(points, n) ==
    LET new_points == insert_n_curves_to_point_list(n, points)
    IN  IF has_new_path_started(points)
        THEN append_points(set_points(points, new_points).points,
                           <<get_last_point(points)>>)
        ELSE set_points(points, new_points)

----------------------------------------------------------------------------
(* Alignment of two buffers                                                *)

(* Mobject.get_center, called on a buffer with no points: the origin       *)
get_center(points) == ORIGIN

(* The loop body of align_points for one mobject                           *)
align_prepare(points) ==
    LET m1 == IF has_no_points(points)
              THEN start_new_path(points, get_center(points)).points ELSE points
    IN  IF has_new_path_started(m1)
        THEN add_line_to(m1, get_last_point(m1)).points ELSE m1

(* Variant: a missing subpath is replaced by the whole last subpath        *)
get_nth_subpath_last(path_list, n) ==
    IF n >= Len(path_list)
    THEN path_list[Len(path_list)]
    ELSE path_list[n + 1]

(* Variant: a missing subpath is a null curve at the first point of the    *)
(* last subpath                                                            *)
get_nth_subpath_first_point(path_list, n) ==
    IF n >= Len(path_list)
    THEN Repeat(path_list[Len(path_list)][1], n_points_per_cubic_curve)
    ELSE path_list[n + 1]

(* n counts from 0; path_list is not empty                                 *)
get_nth_subpath(path_list, n) ==
    IF n >= Len(path_list)
    THEN Repeat(get_last_point(path_list[Len(path_list)]), n_points_per_cubic_curve)
    ELSE path_list[n + 1]

(* Variant: the difference is counted in points, not in curves            *)
align_diff_in_points(sp, other) == Max(0, Len(other) - Len(sp))

align_diff(sp, other) ==
    Max(0, (Len(other) - Len(sp)) \div n_points_per_cubic_curve)

align_points(points, vm_points) ==
    IF get_num_points(points) = get_num_points(vm_points)
    THEN [self |-> points, vmobject |-> vm_points, raised |-> FALSE]
    ELSE LET m1 == align_prepare(points)
             m2 == align_prepare(vm_points)
             subpaths1 == get_subpaths(m1)
             subpaths2 == get_subpaths(m2)
             n_subpaths == Max(Len(subpaths1), Len(subpaths2))
             sp1(n) == get_nth_subpath(subpaths1, n)
             sp2(n) == get_nth_subpath(subpaths2, n)
             new_path1 == Flatten([k \in 1..n_subpaths |->
                 insert_n_curves_to_point_list(
                     align_diff(sp1(k - 1), sp2(k - 1)), sp1(k - 1))])
             new_path2 == Flatten([k \in 1..n_subpaths |->
                 insert_n_curves_to_point_list(
                     align_diff(sp2(k - 1), sp1(k - 1)), sp2(k - 1))])
         IN  IF n_subpaths > 0 /\ (subpaths1 = <<>> \/ subpaths2 = <<>>)
             THEN [self |-> m1, vmobject |-> m2, raised |-> TRUE]
             ELSE [self |-> new_path1, vmobject |-> new_path2, raised |-> FALSE]

----------------------------------------------------------------------------
(* Partial curve extraction                                                *)

(* Variant: the receiver takes the source's complete quads only            *)
become_partial_whole_quads(points, vm_points) ==
    set_points(points, Flatten(get_cubic_bezier_tuples_from_points(vm_points)))

(* a <= 0 and b >= 1: the receiver takes a copy of the source's points     *)
become_partial_whole(points, vm_points) == set_points(points, vm_points)

(* Variant: the lower residue is ignored                                   *)
become_partial_one_from_start(bezier_quads, lower_index, lower_residue, upper_residue) ==
    partial_bezier_points(bezier_quads[lower_index + 1], R(0), upper_residue)

(* lower_index == upper_index: one piece of one quad                       *)
become_partial_one(bezier_quads, lower_index, lower_residue, upper_residue) ==
    partial_bezier_points(bezier_quads[lower_index + 1], lower_residue, upper_residue)

(* Variant: the quads between start at lower_index, not lower_index + 1    *)
become_partial_many_repeat(bezier_quads, lower_index, lower_residue, upper_index, upper_residue) ==
    partial_bezier_points(bezier_quads[lower_index + 1], lower_residue, R(1))
        \o Flatten(SubSeq(bezier_quads, lower_index + 1, upper_index))
        \o partial_bezier_points(bezier_quads[upper_index + 1], R(0), upper_residue)

(* Otherwise: the end of the lower quad, the quads strictly between, and   *)
(* the start of the upper quad                                             *)
become_partial_many(bezier_quads, lower_index, lower_residue, upper_index, upper_residue) ==
    partial_bezier_points(bezier_quads[lower_index + 1], lower_residue, R(1))
        \o Flatten(SubSeq(bezier_quads, lower_index + 2, upper_index))
        \o partial_bezier_points(bezier_quads[upper_index + 1], R(0), upper_residue)

(* Variant: equal indices are not told apart from different ones           *)
pointwise_become_partial_always_many(points, vm_points, a, b) ==
    IF RLe(a, R(0)) /\ RLe(R(1), b) THEN become_partial_whole(points, vm_points)
    ELSE LET bezier_quads == get_cubic_bezier_tuples_from_points(vm_points)
             num_cubics == Len(bezier_quads)
             lower == integer_interpolate(0, num_cubics, a)
             upper == integer_interpolate(0, num_cubics, b)
         IN  IF num_cubics = 0 THEN clear_points(points)
             ELSE Ok(become_partial_many(bezier_quads, lower[1], lower[2],
                                         upper[1], upper[2]))

pointwise_become_partial(points, vm_points, a, b) ==
    IF RLe(a, R(0)) /\ RLe(R(1), b) THEN become_partial_whole(points, vm_points)
    ELSE LET bezier_quads == get_cubic_bezier_tuples_from_points(vm_points)
             num_cubics == Len(bezier_quads)
             lower == integer_interpolate(0, num_cubics, a)
             upper == integer_interpolate(0, num_cubics, b)
         IN  IF num_cubics = 0 THEN clear_points(points)
             ELSE IF lower[1] = upper[1]
             THEN Ok(become_partial_one(bezier_quads, lower[1], lower[2], upper[2]))
             ELSE Ok(become_partial_many(bezier_quads, lower[1], lower[2],
                                         upper[1], upper[2]))

----------------------------------------------------------------------------
(* Style arrays.  A style holds the three rgba arrays (sequences of        *)
(* <<r, g, b, a>>), the two stroke widths and the sheen of one VMobject.   *)

None == <<>>

BLACK == <<R(0), R(0), R(0)>>

WHITE == <<R(1), R(1), R(1)>>

RgbasAttrs == <<"fill_rgbas", "stroke_rgbas", "background_stroke_rgbas">>

NumberAttrs == {"stroke_width", "background_stroke_width", "sheen_factor"}

(* utils.iterables.stretch_array_to_length: entry i, counted from 0, is    *)
(* entry floor(i * curr_len / length) of nparray                           *)
stretch_array_to_length(nparray, length) ==
    [i \in 1..length |-> nparray[((i - 1) * Len(nparray)) \div length + 1]]

(* utils.iterables.make_even: both lists brought to the larger length      *)
make_even(list_1, list_2) ==
    LET length == Max(Len(list_1), Len(list_2))
    IN  <<[n \in 1..length |-> list_1[((n - 1) * Len(list_1)) \div length + 1]],
          [n \in 1..length |-> list_2[((n - 1) * Len(list_2)) \div length + 1]]>>

color_to_rgba(color, opacity) == color \o <<opacity>>

clip(x, lo, hi) == IF RLt(x, lo) THEN lo ELSE IF RLt(hi, x) THEN hi ELSE x

(* colors and opacities are the tuples tuplify makes of the arguments      *)
generate_rgbas_array(sheen_factor, colors, opacities) ==
    LET even == make_even(colors, opacities)
        rgbas == [n \in 1..Len(even[1]) |-> color_to_rgba(even[1][n], even[2][n])]
        light_rgbas ==
            [n \in 1..Len(rgbas) |->
                [c \in 1..4 |->
                    clip(IF c <= 3 THEN RAdd(rgbas[n][c], sheen_factor) ELSE rgbas[n][c],
                         R(0), R(1))]]
    IN  IF sheen_factor # R(0) /\ Len(rgbas) = 1 THEN rgbas \o light_rgbas ELSE rgbas

(* Variant: a shorter current array is filled up with its last entry       *)
update_rgbas_array_pad_last(curr_rgbas, sheen_factor, color, opacity) ==
    LET rgbas == generate_rgbas_array(sheen_factor,
                     IF color # None THEN color ELSE <<BLACK>>,
                     IF opacity # None THEN opacity ELSE <<R(0)>>)
        replaced == Len(curr_rgbas) < Len(rgbas)
        curr == IF replaced
                THEN curr_rgbas \o Repeat(curr_rgbas[Len(curr_rgbas)],
                                          Len(rgbas) - Len(curr_rgbas))
                ELSE curr_rgbas
        new == IF Len(rgbas) < Len(curr_rgbas)
               THEN stretch_array_to_length(rgbas, Len(curr_rgbas)) ELSE rgbas
    IN  [rgbas |-> [i \in 1..Len(curr) |->
                       [c \in 1..4 |->
                           IF (c <= 3 /\ color # None) \/ (c = 4 /\ opacity # None)
                           THEN new[i][c] ELSE curr[i][c]]],
         replaced |-> replaced]

(* The array after the call, and whether the attribute was set to a new    *)
(* array (otherwise the current array was written in place).  color and    *)
(* opacity are None or the tuple of the values passed.                     *)
update_rgbas_array(curr_rgbas, sheen_factor, color, opacity) ==
    LET passed_color == IF color # None THEN color ELSE <<BLACK>>
        passed_opacity == IF opacity # None THEN opacity ELSE <<R(0)>>
        rgbas == generate_rgbas_array(sheen_factor, passed_color, passed_opacity)
        replaced == Len(curr_rgbas) < Len(rgbas)
        curr == IF replaced
                THEN stretch_array_to_length(curr_rgbas, Len(rgbas)) ELSE curr_rgbas
        new == IF Len(rgbas) < Len(curr_rgbas)
               THEN stretch_array_to_length(rgbas, Len(curr_rgbas)) ELSE rgbas
    IN  [rgbas |-> [i \in 1..Len(curr) |->
                       [c \in 1..4 |->
                           IF (c <= 3 /\ color # None) \/ (c = 4 /\ opacity # None)
                           THEN new[i][c] ELSE curr[i][c]]],
         replaced |-> replaced]

(* Variant: only the array of vmobject is ever stretched                   *)
align_rgbas_vmobject_only(style, vm_style) ==
    LET new_a2(attr) ==
            IF Len(style[attr]) > Len(vm_style[attr])
            THEN stretch_array_to_length(vm_style[attr], Len(style[attr]))
            ELSE vm_style[attr]
    IN  [self |-> style,
         vmobject |-> [attr \in DOMAIN vm_style |->
                          IF \E k \in 1..3 : RgbasAttrs[k] = attr
                          THEN new_a2(attr) ELSE vm_style[attr]]]

(* The two styles after self.align_rgbas(vmobject)                         *)
align_rgbas(style, vm_style) ==
    LET attrs == {RgbasAttrs[k] : k \in 1..3}
        new_a1(attr) ==
            IF Len(vm_style[attr]) > Len(style[attr])
            THEN stretch_array_to_length(style[attr], Len(vm_style[attr]))
            ELSE style[attr]
        new_a2(attr) ==
            IF Len(style[attr]) > Len(vm_style[attr])
            THEN stretch_array_to_length(vm_style[attr], Len(style[attr]))
            ELSE vm_style[attr]
    IN  [self |-> [attr \in DOMAIN style |->
                      IF attr \in attrs THEN new_a1(attr) ELSE style[attr]],
         vmobject |-> [attr \in DOMAIN vm_style |->
                          IF attr \in attrs THEN new_a2(attr) ELSE vm_style[attr]]]

(* interpolate on two numbers                                              *)
interpolate_number(start, end, alpha) ==
    RAdd(RMul(RSub(R(1), alpha), start), RMul(alpha, end))

(* Two arrays can be combined by numpy when they have the same length or   *)
(* one of them has length 1                                                *)
broadcastable(a1, a2) == Len(a1) = Len(a2) \/ Len(a1) = 1 \/ Len(a2) = 1

(* interpolate on two rgba arrays: an array of length 1 is repeated to the *)
(* length of the other                                                     *)
interpolate_rgbas(start, end, alpha) ==
    LET length == Max(Len(start), Len(end))
        at(a, i) == IF Len(a) = 1 THEN a[1] ELSE a[i]
    IN  [i \in 1..length |->
            [c \in 1..4 |-> interpolate_number(at(start, i)[c], at(end, i)[c], alpha)]]

interpolate_attr(attr, value1, value2, alpha) ==
    IF attr \in NumberAttrs THEN interpolate_number(value1, value2, alpha)
    ELSE IF attr = "sheen_direction" THEN interpolate(value1, value2, alpha)
    ELSE interpolate_rgbas(value1, value2, alpha)

(* The rgba attributes come first, in the order of RgbasAttrs; the first   *)
(* pair of arrays that cannot be combined raises, and the attributes from  *)
(* that one on are not set.  set is the set of the attributes set.         *)
attrs_set_by_interpolate_color(mobject1, mobject2) ==
    LET bad == {k \in 1..3 : ~broadcastable(mobject1[RgbasAttrs[k]],
                                            mobject2[RgbasAttrs[k]])}
    IN  IF bad = {} THEN DOMAIN mobject1
        ELSE {RgbasAttrs[k] : k \in {j \in 1..3 : \A b \in bad : j < b}}

(* Variant: the value of mobject2 is not copied at alpha = 1               *)
interpolate_color_no_copy(style, mobject1, mobject2, alpha) ==
    LET set == attrs_set_by_interpolate_color(mobject1, mobject2)
    IN  [style |-> [attr \in DOMAIN style |->
                       IF attr \in set
                       THEN interpolate_attr(attr, mobject1[attr], mobject2[attr], alpha)
                       ELSE style[attr]],
         set |-> set,
         raised |-> set # DOMAIN mobject1]

interpolate_color(style, mobject1, mobject2, alpha) ==
    LET set == attrs_set_by_interpolate_color(mobject1, mobject2)
    IN  [style |-> [attr \in DOMAIN style |->
                       IF attr \notin set THEN style[attr]
                       ELSE IF alpha = R(1) THEN mobject2[attr]
                       ELSE interpolate_attr(attr, mobject1[attr], mobject2[attr], alpha)],
         set |-> set,
         raised |-> set # DOMAIN mobject1]

----------------------------------------------------------------------------
(* Inputs of the operations                                                *)

MaxOps == 2

MaxN == 2

(* A straight cubic from p to q, as set_points_as_corners builds it        *)
Line(p, q) == <<p, interpolate(p, q, Rat(1, 3)), interpolate(p, q, Rat(2, 3)), q>>

Curve1 == <<Pt(0, 0, 0), Pt(1, 0, 0), Pt(2, 0, 0), Pt(3, 0, 0)>>

Curve2 == <<Pt(3, 0, 0), Pt(4, 1, 0), Pt(5, 1, 0), Pt(6, 0, 0)>>

Curve3 == <<Pt(6, 0, 0), Pt(6, 1, 0), Pt(6, 2, 0), Pt(6, 3, 0)>>

Curve4 == Line(Pt(6, 3, 0), Pt(3, 3, 0))

Curve5 == Line(Pt(3, 3, 0), Pt(0, 0, 0))

FarSegment == Line(Pt(5, 0, 0), Pt(8, 0, 0))

Path2 == Curve1 \o Curve2

TwoSegments == Curve1 \o FarSegment

Path3 == Curve1 \o Curve2 \o Curve3

Path5 == Path3 \o Curve4 \o Curve5

Awaiting5 == Curve1 \o <<Pt(3, 0, 0)>>

SamplePoints == {Pt(3, 0, 0), Pt(0, 3, 0)}

VMobjectSamples ==
    {<<>>, <<Pt(3, 0, 0)>>, Curve1, TwoSegments, Path3, Path5, Awaiting5}

SetPointsSamples ==
    {Curve1, Path2, TwoSegments, <<Pt(0, 3, 0)>>, Awaiting5, <<Pt(0, 0, 0), Pt(3, 0, 0)>>}

AppendSamples == {<<Pt(0, 3, 0)>>, Curve2, <<Pt(1, 0, 0), Pt(2, 0, 0), Pt(3, 0, 0)>>}

SubpathSamples == {FarSegment, <<Pt(0, 0, 0), Pt(3, 0, 0)>>}

SmoothArgs ==
    {<<>>, <<Pt(0, 3, 0)>>, <<Pt(1, 1, 0), Pt(0, 3, 0)>>,
     <<Pt(1, 1, 0), Pt(2, 2, 0), Pt(0, 3, 0)>>}

CornerSamples == {<<Pt(0, 3, 0)>>, <<Pt(3, 0, 0), Pt(0, 3, 0)>>}

Rgba(r, g, b, a) == <<R(r), R(g), R(b), a>>

(* src/manim/constants.py: DEFAULT_STROKE_WIDTH = 4, UL = UP + LEFT; the   *)
(* color of a Mobject is WHITE                                             *)
DefaultStyle ==
    [fill_rgbas |-> <<Rgba(1, 1, 1, R(0))>>,
     stroke_rgbas |-> <<Rgba(1, 1, 1, R(1))>>,
     background_stroke_rgbas |-> <<Rgba(0, 0, 0, R(1))>>,
     stroke_width |-> R(4),
     background_stroke_width |-> R(0),
     sheen_direction |-> Pt(-1, 1, 0),
     sheen_factor |-> R(0)]

TwoToneStyle ==
    [fill_rgbas |-> <<Rgba(1, 0, 0, R(1)), Rgba(0, 0, 1, Rat(1, 2))>>,
     stroke_rgbas |-> <<Rgba(1, 0, 0, R(1)), Rgba(0, 1, 0, Rat(1, 2)), Rgba(0, 0, 1, R(0))>>,
     background_stroke_rgbas |-> <<Rgba(0, 0, 0, R(1))>>,
     stroke_width |-> R(2),
     background_stroke_width |-> R(1),
     sheen_direction |-> Pt(1, 0, 0),
     sheen_factor |-> R(0)]

GradientStyle ==
    [fill_rgbas |-> <<Rgba(0, 1, 0, R(1)), Rgba(1, 1, 0, Rat(1, 2)), Rgba(0, 0, 0, R(0))>>,
     stroke_rgbas |-> <<Rgba(0, 0, 1, Rat(1, 2))>>,
     background_stroke_rgbas |-> <<Rgba(1, 1, 1, R(1)), Rgba(0, 0, 0, Rat(1, 2))>>,
     stroke_width |-> R(6),
     background_stroke_width |-> R(2),
     sheen_direction |-> Pt(0, 1, 0),
     sheen_factor |-> Rat(1, 2)]

StyleSamples == {DefaultStyle, TwoToneStyle, GradientStyle}

ColorArgs ==
    {None, <<BLACK, <<R(1), R(0), R(0)>>, WHITE>>,
     <<BLACK, <<R(1), R(0), R(0)>>, <<R(0), R(1), R(0)>>, <<R(0), R(0), R(1)>>, WHITE>>}

OpacityArgs == {None, <<Rat(1, 2)>>}

AlphaSamples == {R(0), Rat(1, 2), R(1)}

PartialRanges ==
    {<<R(0), R(1)>>, <<R(-1), R(2)>>, <<R(0), Rat(1, 3)>>, <<Rat(1, 2), R(1)>>,
     <<Rat(1, 3), Rat(1, 2)>>}

----------------------------------------------------------------------------
(* The state machine: self and vmobject are two VMobjects; every action is *)
(* one call of a method of self.  call records the last call.              *)

NoCall == [op |-> "none", args |-> <<>>, self_before |-> <<>>,
           vmobject_before |-> <<>>, style_before |-> <<>>, raised |-> FALSE]

(* Every style is the one init_colors makes of CONFIG                      *)
DefaultStyles ==
    /\ self_style = DefaultStyle
    /\ vmobject_style = DefaultStyle
    /\ mobject2_style = DefaultStyle
    /\ shared = {}

Init ==
    /\ self_points = <<>>
    /\ vmobject_points \in VMobjectSamples
    /\ DefaultStyles
    /\ call = NoCall
    /\ nops = 0

Record(op, args, raised) ==
    [op |-> op, args |-> args, self_before |-> self_points,
     vmobject_before |-> vmobject_points,
     style_before |-> [self |-> self_style, vmobject |-> vmobject_style,
                       mobject2 |-> mobject2_style],
     raised |-> raised]

(* A call that touches the points of self only                             *)
Step(op, args, r) ==
    /\ nops < MaxOps
    /\ self_points' = r.points
    /\ UNCHANGED <<vmobject_points, styles>>
    /\ call' = Record(op, args, r.raised)
    /\ nops' = nops + 1

Call_set_points ==
    \E pts \in SetPointsSamples :
        Step("set_points", <<pts>>, set_points(self_points, pts))

Call_clear_points == Step("clear_points", <<>>, clear_points(self_points))

Call_append_points ==
    \E pts \in AppendSamples :
        Step("append_points", <<pts>>, append_points(self_points, pts))

Call_start_new_path ==
    \E p \in SamplePoints :
        Step("start_new_path", <<p>>, start_new_path(self_points, p))

Call_add_cubic_bezier_curve ==
    Step("add_cubic_bezier_curve", Curve2,
         add_cubic_bezier_curve(self_points, Curve2[1], Curve2[2], Curve2[3], Curve2[4]))

Call_add_cubic_bezier_curve_to ==
    Step("add_cubic_bezier_curve_to", Tail(Curve2),
         add_cubic_bezier_curve_to(self_points, Curve2[2], Curve2[3], Curve2[4]))

Call_add_line_to ==
    \E p \in SamplePoints :
        Step("add_line_to", <<p>>, add_line_to(self_points, p))

Call_add_smooth_curve_to ==
    \E args \in SmoothArgs :
        Step("add_smooth_curve_to", args, add_smooth_curve_to(self_points, args))

Call_add_points_as_corners ==
    \E pts \in CornerSamples :
        Step("add_points_as_corners", <<pts>>, add_points_as_corners(self_points, pts))

Call_add_subpath ==
    \E pts \in SubpathSamples :
        Step("add_subpath", <<pts>>, add_subpath(self_points, pts))

Call_append_vectorized_mobject ==
    Step("append_vectorized_mobject", <<>>,
         append_vectorized_mobject(self_points, vmobject_points))

Call_insert_n_curves ==
    \E n \in 0..MaxN :
        Step("insert_n_curves", <<n>>, insert_n_curves(self_points, n))

Call_pointwise_become_partial ==
    \E ab \in PartialRanges :
        Step("pointwise_become_partial", ab,
             pointwise_become_partial(self_points, vmobject_points, ab[1], ab[2]))

(* align_rgbas comes first; an array of self that it stretches is a new    *)
(* array                                                                   *)
Call_align_points ==
    LET a == align_rgbas(self_style, vmobject_style)
        r == align_points(self_points, vmobject_points)
    IN  /\ nops < MaxOps
        /\ self_style' = a.self
        /\ vmobject_style' = a.vmobject
        /\ shared' = {attr \in shared : Len(a.self[attr]) = Len(self_style[attr])}
        /\ UNCHANGED mobject2_style
        /\ self_points' = r.self
        /\ vmobject_points' = r.vmobject
        /\ call' = Record("align_points", <<>>, r.raised)
        /\ nops' = nops + 1

Next ==
    \/ Call_set_points
    \/ Call_clear_points
    \/ Call_append_points
    \/ Call_start_new_path
    \/ Call_add_cubic_bezier_curve
    \/ Call_add_cubic_bezier_curve_to
    \/ Call_add_line_to
    \/ Call_add_smooth_curve_to
    \/ Call_add_points_as_corners
    \/ Call_add_subpath
    \/ Call_append_vectorized_mobject
    \/ Call_insert_n_curves
    \/ Call_pointwise_become_partial
    \/ Call_align_points

Spec == Init /\ [][Next]_vars

----------------------------------------------------------------------------
(* The style operations, from styles drawn from StyleSamples               *)

MaxStyleOps == 2

InitStyle ==
    /\ self_points = Curve1
    /\ vmobject_points \in {Curve1, Path2}
    /\ self_style \in {DefaultStyle, TwoToneStyle}
    /\ vmobject_style \in StyleSamples
    /\ mobject2_style \in {DefaultStyle, GradientStyle}
    /\ shared = {}
    /\ call = NoCall
    /\ nops = 0

(* set_fill, set_stroke and set_background_stroke call update_rgbas_array  *)
(* on one of the three arrays.  An array written in place is written for   *)
(* every mobject that holds it.                                            *)
Call_update_rgbas_array ==
    \E k \in 1..3, color \in ColorArgs, opacity \in OpacityArgs :
        LET array_name == RgbasAttrs[k]
            r == update_rgbas_array(self_style[array_name], self_style.sheen_factor,
                                    color, opacity)
        IN  /\ nops < MaxStyleOps
            /\ self_style' = [self_style EXCEPT ![array_name] = r.rgbas]
            /\ mobject2_style' =
                   IF array_name \in shared /\ ~r.replaced
                   THEN [mobject2_style EXCEPT ![array_name] = r.rgbas]
                   ELSE mobject2_style
            /\ shared' = IF r.replaced THEN shared \ {array_name} ELSE shared
            /\ UNCHANGED <<self_points, vmobject_points, vmobject_style>>
            /\ call' = Record("update_rgbas_array", <<array_name, color, opacity>>, FALSE)
            /\ nops' = nops + 1

(* self.interpolate_color(vmobject, mobject2, alpha)                       *)
Call_interpolate_color ==
    \E alpha \in AlphaSamples :
        LET r == interpolate_color(self_style, vmobject_style, mobject2_style, alpha)
            arrays_set == {RgbasAttrs[k] : k \in 1..3} \cap r.set
        IN  /\ nops < MaxStyleOps
            /\ self_style' = r.style
            /\ shared' = IF alpha = R(1) THEN shared \cup arrays_set
                          ELSE shared \ arrays_set
            /\ UNCHANGED <<self_points, vmobject_points, vmobject_style, mobject2_style>>
            /\ call' = Record("interpolate_color", <<alpha>>, r.raised)
            /\ nops' = nops + 1

NextStyle ==
    \/ Call_update_rgbas_array
    \/ Call_interpolate_color
    \/ Call_align_points

SpecStyle == InitStyle /\ [][NextStyle]_vars

----------------------------------------------------------------------------
(* The pure functions on point lists, each applied to inputs drawn from a  *)
(* bounded family: up to MaxQuads quads, then possibly one dangling point. *)

MaxQuads == 3

MaxInsert == 3

NearCurve2 ==
    <<<<Rat(3000001, 1000000), R(0), R(0)>>, Pt(4, 1, 0), Pt(5, 1, 0), Pt(6, 0, 0)>>

QuadLists(quads) == UNION {[1..k -> quads] : k \in 0..MaxQuads}

PointLists(quads) ==
    {Flatten([j \in 1..Len(qs) |-> qs[j]]) \o tail :
        qs \in QuadLists(quads), tail \in {<<>>, <<Pt(3, 0, 0)>>}}

Input(n, points) == [op |-> "input", n |-> n, points |-> points, result |-> <<>>]

Idle ==
    /\ self_points = <<>>
    /\ vmobject_points = <<>>
    /\ DefaultStyles
    /\ nops = 0

InitInsert ==
    /\ Idle
    /\ \E n \in 0..MaxInsert, points \in PointLists({Curve1, Curve2, FarSegment}) :
           call = Input(n, points)

Apply_insert_n_curves_to_point_list ==
    /\ call.op = "input"
    /\ call' = [call EXCEPT !.op = "insert_n_curves_to_point_list",
                            !.result = insert_n_curves_to_point_list(call.n, call.points)]
    /\ UNCHANGED <<self_points, vmobject_points, nops, styles>>

SpecInsert == InitInsert /\ [][Apply_insert_n_curves_to_point_list]_vars

InitSubpaths ==
    /\ Idle
    /\ \E points \in PointLists({Curve1, Curve2, NearCurve2, FarSegment}) :
           call = Input(0, points)

Apply_get_subpaths_from_points ==
    /\ call.op = "input"
    /\ call' = [call EXCEPT !.op = "get_subpaths_from_points",
                            !.result = get_subpaths_from_points(call.points)]
    /\ UNCHANGED <<self_points, vmobject_points, nops, styles>>

SpecSubpaths == InitSubpaths /\ [][Apply_get_subpaths_from_points]_vars

----------------------------------------------------------------------------
(* Properties                                                              *)

RECURSIVE SumSeq(_)
SumSeq(seq) == IF seq = <<>> THEN 0 ELSE Head(seq) + SumSeq(Tail(seq))

LengthOk(points) == Len(points) % 4 \in {0, 1}

(* C1: after any sequence of the point-buffer operations from an empty     *)
(* buffer, calls that raise included, the length of the buffer is 0 or 1   *)
(* modulo 4.                                                               *)
C1_LengthInvariant == LengthOk(self_points)

(* C2: when both buffers have a length of 0 or 1 modulo 4, align_points    *)
(* returns, leaves both buffers with the same number of points, and that   *)
(* number is a multiple of 4 whenever either buffer was changed.           *)
C2_AlignEqualCounts ==
    (/\ call.op = "align_points"
     /\ LengthOk(call.self_before)
     /\ LengthOk(call.vmobject_before))
    => /\ ~call.raised
       /\ Len(self_points) = Len(vmobject_points)
       /\ (self_points # call.self_before \/ vmobject_points # call.vmobject_before)
            => Len(self_points) % 4 = 0

(* An awaiting buffer was aligned with a buffer of two subpaths.           *)
C2_Witness ==
    /\ call.op = "align_points"
    /\ call.self_before = Awaiting5
    /\ call.vmobject_before = TwoSegments
    /\ Len(self_points) = Len(vmobject_points)
    /\ self_points # call.self_before

(* The curve count of subpath i (from 1) of a buffer, 1 when it is missing *)
SubpathCurves(points, i) ==
    LET sps == get_subpaths(points)
    IN  IF i <= Len(sps) THEN Len(sps[i]) \div 4 ELSE 1

AlignedCurves(points1, points2) ==
    LET n == Max(Len(get_subpaths(points1)), Len(get_subpaths(points2)))
    IN  SumSeq([i \in 1..n |->
                    Max(SubpathCurves(points1, i), SubpathCurves(points2, i))])

(* C4: align_points on two buffers of complete curves with different point *)
(* counts leaves in each buffer the sum over the aligned subpath indices   *)
(* of the larger of the two curve counts, a missing subpath counting as 1  *)
(* curve; 2 curves against 5 curves in one subpath each give 5 and 5.      *)
C4_AlignCurveCounts ==
    (/\ call.op = "align_points"
     /\ Len(call.self_before) % 4 = 0
     /\ Len(call.vmobject_before) % 4 = 0
     /\ Len(call.self_before) # Len(call.vmobject_before))
    => /\ get_num_curves(self_points)
            = AlignedCurves(call.self_before, call.vmobject_before)
       /\ get_num_curves(vmobject_points)
            = AlignedCurves(call.self_before, call.vmobject_before)
       /\ Len(self_points) % 4 = 0
       /\ Len(vmobject_points) % 4 = 0
       /\ (call.self_before = Path2 /\ call.vmobject_before = Path5)
            => (Len(self_points) = 20 /\ Len(vmobject_points) = 20)

(* Two curves were aligned with five curves.                               *)
C4_Witness ==
    /\ call.op = "align_points"
    /\ call.self_before = Path2
    /\ call.vmobject_before = Path5
    /\ get_num_curves(self_points) = 5
    /\ get_num_curves(vmobject_points) = 5

(* C5: pointwise_become_partial(source, a, b) with a <= 0 and b >= 1 gives *)
(* the receiver exactly the source's points, whatever the source's length, *)
(* and leaves the source's points as they were.                            *)
C5_PartialWhole ==
    (/\ call.op = "pointwise_become_partial"
     /\ RLe(call.args[1], R(0))
     /\ RLe(R(1), call.args[2]))
    => /\ ~call.raised
       /\ self_points = call.vmobject_before
       /\ vmobject_points = call.vmobject_before

(* The whole of an awaiting source was taken with a < 0 and b > 1.         *)
C5_Witness ==
    /\ call.op = "pointwise_become_partial"
    /\ call.args = <<R(-1), R(2)>>
    /\ call.vmobject_before = Awaiting5
    /\ self_points = Awaiting5

(* C6, as claimed: from a source of exactly 3 curves,                      *)
(* pointwise_become_partial(source, 0, 1/3) gives exactly the first quad   *)
(* of the source, 4 points.                                                *)
C6_FirstQuadOnly ==
    (/\ call.op = "pointwise_become_partial"
     /\ call.args = <<R(0), Rat(1, 3)>>
     /\ Len(call.vmobject_before) = 12)
    => self_points = Slice(call.vmobject_before, 0, 4)

(* C6, amended: from a source of exactly 3 curves,                         *)
(* pointwise_become_partial(source, 0, 1/3) gives 8 points, 2 curves: the  *)
(* first quad of the source unmodified, then one zero-length curve whose   *)
(* four points are the first point of the source's second quad.            *)
C6_FirstQuadThenNullCurve ==
    (/\ call.op = "pointwise_become_partial"
     /\ call.args = <<R(0), Rat(1, 3)>>
     /\ Len(call.vmobject_before) = 12)
    => /\ ~call.raised
       /\ self_points = Slice(call.vmobject_before, 0, 4)
                            \o Repeat(call.vmobject_before[5], 4)

(* The first third of the three-curve source was taken.                    *)
C6_Witness ==
    /\ call.op = "pointwise_become_partial"
    /\ call.args = <<R(0), Rat(1, 3)>>
    /\ call.vmobject_before = Path3
    /\ get_num_curves(self_points) = 2

(* C7: from the one-curve source (0,0,0), (1,0,0), (2,0,0), (3,0,0),       *)
(* pointwise_become_partial(source, 1/2, 1) gives exactly the quad         *)
(* (3/2,0,0), (2,0,0), (5/2,0,0), (3,0,0).                                 *)
C7_HalfOfStraightCurve ==
    (/\ call.op = "pointwise_become_partial"
     /\ call.args = <<Rat(1, 2), R(1)>>
     /\ call.vmobject_before = <<Pt(0, 0, 0), Pt(1, 0, 0), Pt(2, 0, 0), Pt(3, 0, 0)>>)
    => self_points = <<<<Rat(3, 2), R(0), R(0)>>, Pt(2, 0, 0),
                       <<Rat(5, 2), R(0), R(0)>>, Pt(3, 0, 0)>>

(* The upper half of the straight one-curve source was taken.              *)
C7_Witness ==
    /\ call.op = "pointwise_become_partial"
    /\ call.args = <<Rat(1, 2), R(1)>>
    /\ call.vmobject_before = Curve1
    /\ Len(self_points) = 4
    /\ self_points[1] = <<Rat(3, 2), R(0), R(0)>>

Inserted == call.op = "insert_n_curves_to_point_list"

(* C3, as claimed: for every point list, holding curr complete curves, and *)
(* every n >= 0, insert_n_curves_to_point_list(n, points) returns exactly  *)
(* curr + n curves, 4 * (curr + n) points.                                 *)
C3_CurrPlusN ==
    Inserted => Len(call.result) = 4 * (get_num_curves(call.points) + call.n)

(* C3, amended: for every point list holding curr >= 1 complete curves and *)
(* every n >= 0, insert_n_curves_to_point_list(n, points) returns exactly  *)
(* curr + n curves, 4 * (curr + n) points: the split factor of every       *)
(* original curve is at least 1 and the split factors sum to curr + n.     *)
C3_CurrPlusN_NonEmpty ==
    (Inserted /\ get_num_curves(call.points) >= 1)
    => LET curr == get_num_curves(call.points)
           sfs == split_factors(curr, curr + call.n)
       IN  /\ Len(call.result) = 4 * (curr + call.n)
           /\ Len(sfs) = curr
           /\ \A k \in 1..curr : sfs[k] >= 1
           /\ SumSeq(sfs) = curr + call.n
           /\ call.result = Flatten([k \in 1..curr |->
                  split_quad(get_cubic_bezier_tuples_from_points(call.points)[k], sfs[k])])

(* Three curves were inserted into a list of two curves.                   *)
C3_Witness ==
    /\ Inserted
    /\ call.points = Path2
    /\ call.n = 3
    /\ Len(call.result) = 20

(* C9, as claimed: for a list of a single point and every n >= 0,          *)
(* insert_n_curves_to_point_list(n, points) returns 4 * (n + 1) points,    *)
(* all equal to that point.                                                *)
C9_SinglePointNPlusOne ==
    (Inserted /\ Len(call.points) = 1)
    => call.result = Repeat(call.points[1], 4 * (call.n + 1))

(* C9, amended: for a list of a single point and every n >= 0,             *)
(* insert_n_curves_to_point_list(n, points) returns n copies of that       *)
(* point-curve: 4 * n points, all equal to that point.                     *)
C9_SinglePointN ==
    (Inserted /\ Len(call.points) = 1)
    => /\ Len(call.result) = 4 * call.n
       /\ \A i \in 1..Len(call.result) : call.result[i] = call.points[1]

(* Two curves were requested of a single point.                            *)
C9_Witness ==
    /\ Inserted
    /\ Len(call.points) = 1
    /\ call.n = 2
    /\ Len(call.result) = 8

(* C10: for every curr >= 1 and n >= 0 the split factors computed by       *)
(* insert_n_curves_to_point_list differ from one another by at most 1.     *)
C10_SplitFactorsBalanced ==
    (Inserted /\ get_num_curves(call.points) >= 1)
    => LET curr == get_num_curves(call.points)
           sfs == split_factors(curr, curr + call.n)
       IN  \A k1, k2 \in 1..curr : sfs[k1] - sfs[k2] <= 1

(* Three curves were split into five: the factors are not all equal.       *)
C10_Witness ==
    /\ Inserted
    /\ get_num_curves(call.points) = 3
    /\ call.n = 2
    /\ split_factors(3, 5) = <<2, 2, 1>>
    /\ Len(call.result) = 20

(* The multiples of 4 inside a list of complete curves where the point     *)
(* before and the point at the index differ by more than the tolerance     *)
Gaps(points) ==
    {n \in 1..(Len(points) - 1) :
        n % 4 = 0 /\ ~consider_points_equals(points[n], points[n + 1])}

Contiguous(subpath) ==
    /\ Len(subpath) % 4 = 0
    /\ Len(subpath) >= 4
    /\ \A n \in 1..(Len(subpath) - 1) :
           n % 4 = 0 => consider_points_equals(subpath[n], subpath[n + 1])

(* C8: for a buffer of complete curves, get_subpaths splits exactly at the *)
(* multiples of 4 where the two neighbouring points differ by more than    *)
(* the tolerance: k gaps give k + 1 subpaths, in order, whose              *)
(* concatenation is the buffer, each contiguous within tolerance; two      *)
(* disjoint straight segments give exactly 2 subpaths.                     *)
C8_SubpathsAtGaps ==
    (/\ call.op = "get_subpaths_from_points"
     /\ Len(call.points) % 4 = 0
     /\ Len(call.points) >= 4)
    => LET subpaths == call.result
           start(i) == SumSeq([j \in 1..(i - 1) |-> Len(subpaths[j])])
       IN  /\ Len(subpaths) = Cardinality(Gaps(call.points)) + 1
           /\ Flatten(subpaths) = call.points
           /\ \A i \in 2..Len(subpaths) : start(i) \in Gaps(call.points)
           /\ \A i \in 1..Len(subpaths) : Contiguous(subpaths[i])
           /\ call.points = TwoSegments => Len(subpaths) = 2

(* Two disjoint segments were split into their two subpaths.               *)
C8_Witness ==
    /\ call.op = "get_subpaths_from_points"
    /\ call.points = Curve1 \o FarSegment
    /\ call.result = <<Curve1, FarSegment>>

(* C13: add_smooth_curve_to called with no point or with three or more     *)
(* points raises, whether the buffer is empty, complete or awaiting, and   *)
(* leaves the buffer exactly as it was.                                    *)
C13_SmoothArgCountRaises ==
    (call.op = "add_smooth_curve_to" /\ Len(call.args) \notin {1, 2})
    => /\ call.raised
       /\ self_points = call.self_before

(* add_smooth_curve_to was called with three points on a complete buffer.  *)
C13_Witness ==
    /\ call.op = "add_smooth_curve_to"
    /\ Len(call.args) = 3
    /\ call.self_before = Curve1
    /\ call.raised
    /\ self_points = Curve1

(* The calls that extend the buffer from its last point                    *)
ExtendsFromLastPoint ==
    \/ call.op \in {"add_cubic_bezier_curve_to", "add_line_to"}
    \/ call.op = "add_smooth_curve_to" /\ Len(call.args) \in {1, 2}
    \/ call.op = "add_points_as_corners" /\ call.args[1] # <<>>

(* C14: add_cubic_bezier_curve_to, add_line_to, add_smooth_curve_to with   *)
(* one or two points and add_points_as_corners with a non-empty list raise *)
(* on a buffer with zero points, and the buffer still has zero points.     *)
C14_EmptyBufferRaises ==
    (ExtendsFromLastPoint /\ call.self_before = <<>>)
    => /\ call.raised
       /\ self_points = <<>>

(* add_cubic_bezier_curve_to was called on the empty buffer.               *)
C14_Witness ==
    /\ call.op = "add_cubic_bezier_curve_to"
    /\ call.self_before = <<>>
    /\ call.raised
    /\ self_points = <<>>

(* The straight cubic from point last to point p                           *)
StraightCurve(last, p) ==
    <<last, PAdd(last, PScale(Rat(1, 3), PSub(p, last))),
      PAdd(last, PScale(Rat(2, 3), PSub(p, last))), p>>

(* C18: add_line_to(P) on a non-empty buffer of length 0 or 1 modulo 4     *)
(* adds exactly one curve and leaves a length of 0 modulo 4: an awaiting   *)
(* buffer gets 3 points, any other 4 points beginning with a copy of its   *)
(* last point; the new curve is the last point followed by the points 1/3, *)
(* 2/3 and 3/3 of the way to P; the earlier points are unchanged.          *)
C18_AddLineToOneCurve ==
    (/\ call.op = "add_line_to"
     /\ Len(call.self_before) > 0
     /\ LengthOk(call.self_before))
    => LET before == call.self_before
           new_curve == StraightCurve(before[Len(before)], call.args[1])
       IN  /\ ~call.raised
           /\ get_num_curves(self_points) = get_num_curves(before) + 1
           /\ Len(self_points) % 4 = 0
           /\ Len(before) % 4 = 1 => self_points = before \o Tail(new_curve)
           /\ Len(before) % 4 = 0 => self_points = before \o new_curve

(* A line was added to an awaiting buffer of one curve and one point.      *)
C18_Witness ==
    /\ call.op = "add_line_to"
    /\ call.self_before = Awaiting5
    /\ call.args = <<Pt(0, 3, 0)>>
    /\ Len(self_points) = 8
    /\ self_points[6] = Pt(2, 1, 0)

(* C20: insert_n_curves(n) on an awaiting buffer of 4k + 1 points leaves   *)
(* an awaiting buffer of 4(k + n) + 1 points with the same last point; on  *)
(* a complete buffer of 4k points, k >= 1, it leaves 4(k + n) points; and  *)
(* insert_n_curves(0) leaves an empty, complete or awaiting buffer         *)
(* unchanged.                                                              *)
C20_InsertKeepsAwaiting ==
    (call.op = "insert_n_curves" /\ LengthOk(call.self_before))
    => LET before == call.self_before
           k == Len(before) \div 4
           n == call.args[1]
       IN  /\ ~call.raised
           /\ Len(before) % 4 = 1
                => /\ Len(self_points) = 4 * (k + n) + 1
                   /\ self_points[Len(self_points)] = before[Len(before)]
           /\ (Len(before) % 4 = 0 /\ k >= 1) => Len(self_points) = 4 * (k + n)
           /\ n = 0 => self_points = before

(* Two curves were inserted into an awaiting buffer of one curve.          *)
C20_Witness ==
    /\ call.op = "insert_n_curves"
    /\ call.self_before = Awaiting5
    /\ call.args = <<2>>
    /\ Len(self_points) = 13
    /\ self_points[13] = Pt(3, 0, 0)

(* C19: for every buffer of length 0 or 1 modulo 4, an awaiting buffer      *)
(* whose dangling last point equals the end anchor of the curve before it  *)
(* included, every subpath returned by get_subpaths has a length that is a *)
(* positive multiple of 4, and the dangling point belongs to no subpath.   *)
C19_SubpathsWholeCurves ==
    (call.op = "get_subpaths_from_points" /\ LengthOk(call.points))
    => LET subpaths == call.result
       IN  /\ \A i \in 1..Len(subpaths) :
                  Len(subpaths[i]) % 4 = 0 /\ Len(subpaths[i]) >= 4
           /\ Len(call.points) % 4 = 1
                => SumSeq([i \in 1..Len(subpaths) |-> Len(subpaths[i])])
                       < Len(call.points)

(* The claim of C16 for one side of the alignment: own and other are the   *)
(* subpaths of the two buffers as align_points sees them, after are the    *)
(* points the side has afterwards.                                         *)
PaddedAfterRealSubpaths(own, other, after) ==
    LET m == Len(own)
        real == Flatten([i \in 1..m |->
                    insert_n_curves_to_point_list(align_diff(own[i], other[i]), own[i])])
        missing == SumSeq([i \in 1..(Len(other) - m) |-> Len(other[m + i])])
        last == own[m][Len(own[m])]
    IN  /\ Len(after) = Len(real) + missing
        /\ Slice(after, 0, Len(real)) = real
        /\ \A j \in (Len(real) + 1)..Len(after) : after[j] = last

(* C16: when align_points runs with one side holding fewer subpaths than   *)
(* the other, m < n, the points that side contributes for every aligned    *)
(* index i >= m are all equal to the last point of its last real subpath   *)
(* and come after the points of its m real subpaths; the points for i < m  *)
(* come only from the side's own subpath i.                                *)
C16_MissingSubpathsPadded ==
    (/\ call.op = "align_points"
     /\ ~call.raised
     /\ Len(call.self_before) # Len(call.vmobject_before))
    => LET subpaths1 == get_subpaths(align_prepare(call.self_before))
           subpaths2 == get_subpaths(align_prepare(call.vmobject_before))
       IN  /\ (1 <= Len(subpaths1) /\ Len(subpaths1) < Len(subpaths2))
                => PaddedAfterRealSubpaths(subpaths1, subpaths2, self_points)
           /\ (1 <= Len(subpaths2) /\ Len(subpaths2) < Len(subpaths1))
                => PaddedAfterRealSubpaths(subpaths2, subpaths1, vmobject_points)

(* One curve was aligned with two disjoint segments: the curve is followed *)
(* by a null curve at its end anchor.                                      *)
C16_Witness ==
    /\ call.op = "align_points"
    /\ call.self_before = Curve1
    /\ call.vmobject_before = TwoSegments
    /\ self_points = Curve1 \o Repeat(Pt(3, 0, 0), 4)

(* C17: for a source of num >= 1 curves and a range [a, b] outside the     *)
(* short circuit, with (lowerIndex, lowerResidue) and (upperIndex,         *)
(* upperResidue) from integer_interpolate, pointwise_become_partial gives  *)
(* exactly upperIndex - lowerIndex + 1 curves: the part of quad lowerIndex *)
(* from lowerResidue to upperResidue when the indices are equal, otherwise *)
(* the part of quad lowerIndex from lowerResidue to 1, the quads strictly  *)
(* between unmodified and in order, and the part of quad upperIndex from 0 *)
(* to upperResidue; for num = 0 the result is the empty buffer.            *)
C17_PartialCurves ==
    (/\ call.op = "pointwise_become_partial"
     /\ ~(RLe(call.args[1], R(0)) /\ RLe(R(1), call.args[2]))
     /\ RLe(call.args[1], call.args[2]))
    => LET quads == get_cubic_bezier_tuples_from_points(call.vmobject_before)
           num == Len(quads)
           lower == integer_interpolate(0, num, call.args[1])
           upper == integer_interpolate(0, num, call.args[2])
           between == Flatten([i \in 1..(upper[1] - lower[1] - 1) |-> quads[lower[1] + 1 + i]])
       IN  /\ ~call.raised
           /\ num = 0 => self_points = <<>>
           /\ num >= 1
                => /\ get_num_curves(self_points) = upper[1] - lower[1] + 1
                   /\ Len(self_points) = 4 * (upper[1] - lower[1] + 1)
                   /\ lower[1] = upper[1]
                        => self_points = partial_bezier_points(quads[lower[1] + 1],
                                                               lower[2], upper[2])
                   /\ lower[1] # upper[1]
                        => self_points =
                               partial_bezier_points(quads[lower[1] + 1], lower[2], R(1))
                               \o between
                               \o partial_bezier_points(quads[upper[1] + 1], R(0), upper[2])

(* The upper half of five curves was taken: half of the third curve, the   *)
(* fourth curve unmodified, the whole fifth curve.                         *)
C17_Witness ==
    /\ call.op = "pointwise_become_partial"
    /\ call.args = <<Rat(1, 2), R(1)>>
    /\ call.vmobject_before = Path5
    /\ Len(self_points) = 12
    /\ Slice(self_points, 4, 8) = Curve4
    /\ Slice(self_points, 8, 12) = Curve5

(* (1 - alpha) * v1 + alpha * v2 for two numbers                           *)
WeightedSum(v1, v2, alpha) == RAdd(RMul(RSub(R(1), alpha), v1), RMul(alpha, v2))

(* The same for the values of an attribute: numbers, vectors, or rgba      *)
(* arrays, where an array of one entry stands for as many as the other has *)
WeightedSumOf(attr, v1, v2, alpha) ==
    IF attr \in NumberAttrs THEN WeightedSum(v1, v2, alpha)
    ELSE IF attr = "sheen_direction"
    THEN [c \in 1..3 |-> WeightedSum(v1[c], v2[c], alpha)]
    ELSE [i \in 1..Max(Len(v1), Len(v2)) |->
             [c \in 1..4 |->
                 WeightedSum(v1[IF Len(v1) = 1 THEN 1 ELSE i][c],
                             v2[IF Len(v2) = 1 THEN 1 ELSE i][c], alpha)]]

(* C11: after interpolate_color(m1, m2, alpha) has returned, each of       *)
(* fill_rgbas, stroke_rgbas, background_stroke_rgbas, stroke_width,        *)
(* background_stroke_width, sheen_direction and sheen_factor of the        *)
(* receiver is exactly the stored value of m2 when alpha = 1, and          *)
(* (1 - alpha) * the value of m1 + alpha * the value of m2 when alpha < 1. *)
C11_InterpolateColor ==
    (call.op = "interpolate_color" /\ ~call.raised)
    => LET m1 == call.style_before.vmobject
           m2 == call.style_before.mobject2
           alpha == call.args[1]
       IN  \A attr \in DOMAIN m2 :
               /\ alpha = R(1) => self_style[attr] = m2[attr]
               /\ RLt(alpha, R(1))
                    => self_style[attr] = WeightedSumOf(attr, m1[attr], m2[attr], alpha)

(* The styles were interpolated at alpha = 1 from a fill of three entries  *)
(* to a fill of one entry: the receiver holds the one entry.               *)
C11_Witness ==
    /\ call.op = "interpolate_color"
    /\ ~call.raised
    /\ call.args = <<R(1)>>
    /\ Len(call.style_before.vmobject.fill_rgbas) = 3
    /\ Len(call.style_before.mobject2.fill_rgbas) = 1
    /\ self_style.fill_rgbas = call.style_before.mobject2.fill_rgbas
    /\ self_style.stroke_width = call.style_before.mobject2.stroke_width

(* The source entry, counted from 0, of entry i of an array of srcLen      *)
(* entries stretched to N entries                                          *)
StretchIndex(i, srcLen, N) == (i * srcLen) \div N

(* Array after holds, in the channels kept, array src stretched            *)
StretchedFrom(src, after, kept) ==
    LET srcLen == Len(src)
        N == Len(after)
    IN  /\ srcLen >= 1
        /\ N >= srcLen
        /\ \A i \in 0..(N - 1) : \A c \in kept :
               after[i + 1][c] = src[StretchIndex(i, srcLen, N) + 1][c]
        /\ \A i \in 0..(N - 2) :
               StretchIndex(i, srcLen, N) <= StretchIndex(i + 1, srcLen, N)
        /\ StretchIndex(0, srcLen, N) = 0
        /\ StretchIndex(N - 1, srcLen, N) = srcLen - 1
        /\ (srcLen = 1 /\ N = 5)
             => \A i \in 1..5 : \A c \in kept : after[i][c] = src[1][c]

(* C12: a style array of srcLen >= 1 entries stretched to N >= srcLen      *)
(* entries has N entries, entry i being source entry floor(i * srcLen / N);*)
(* the index mapping is non-decreasing, entry 0 is the first and entry     *)
(* N - 1 the last entry of the source; one entry stretched to 5 gives 5    *)
(* copies.  update_rgbas_array stretches the current array when more       *)
(* colors or opacities are passed than it has entries, and then overwrites *)
(* only the channels passed; align_points stretches the shorter array.     *)
C12_StretchIndexMap ==
    /\ call.op = "update_rgbas_array"
         => LET src == call.style_before.self[call.args[1]]
                after == self_style[call.args[1]]
                kept == {c \in 1..4 : \/ c <= 3 /\ call.args[2] = None
                                      \/ c = 4 /\ call.args[3] = None}
            IN  Len(after) > Len(src) => StretchedFrom(src, after, kept)
    /\ call.op = "align_points"
         => \A k \in 1..3 :
                LET src == call.style_before.self[RgbasAttrs[k]]
                    after == self_style[RgbasAttrs[k]]
                IN  Len(after) > Len(src) => StretchedFrom(src, after, 1..4)

(* Five colors were set on a fill of one entry: its opacity is copied to   *)
(* the five entries.                                                       *)
C12_Witness ==
    /\ call.op = "update_rgbas_array"
    /\ call.args[1] = "fill_rgbas"
    /\ call.args[3] = None
    /\ call.style_before.self.fill_rgbas = <<Rgba(1, 1, 1, R(0))>>
    /\ Len(self_style.fill_rgbas) = 5
    /\ \A i \in 1..5 : self_style.fill_rgbas[i][4] = R(0)
    /\ self_style.fill_rgbas[5][1] = R(1)
    /\ self_style.fill_rgbas[1][1] = R(0)

(* C15: after A.align_points(B), whether or not the point counts were      *)
(* equal, for each of fill_rgbas, stroke_rgbas and background_stroke_rgbas *)
(* the arrays of A and B have the same length, the larger of the two       *)
(* before; the longer array is unchanged and the shorter is replaced by    *)
(* its stretch.                                                            *)
C15_AlignRgbas ==
    call.op = "align_points"
    => \A k \in 1..3 :
           LET a1 == call.style_before.self[RgbasAttrs[k]]
               a2 == call.style_before.vmobject[RgbasAttrs[k]]
               new_a1 == self_style[RgbasAttrs[k]]
               new_a2 == vmobject_style[RgbasAttrs[k]]
               length == Max(Len(a1), Len(a2))
           IN  /\ Len(new_a1) = length
               /\ Len(new_a2) = length
               /\ Len(a1) >= Len(a2)
                    => new_a1 = a1 /\ new_a2 = stretch_array_to_length(a2, length)
               /\ Len(a2) >= Len(a1)
                    => new_a2 = a2 /\ new_a1 = stretch_array_to_length(a1, length)

(* Two buffers of equal point counts were aligned: the fill of two entries *)
(* of self was stretched to the three entries of the fill of vmobject.     *)
C15_Witness ==
    /\ call.op = "align_points"
    /\ Len(call.self_before) = Len(call.vmobject_before)
    /\ Len(call.style_before.self.fill_rgbas) = 2
    /\ Len(call.style_before.vmobject.fill_rgbas) = 3
    /\ self_style.fill_rgbas = <<call.style_before.self.fill_rgbas[1],
                                 call.style_before.self.fill_rgbas[1],
                                 call.style_before.self.fill_rgbas[2]>>
    /\ vmobject_style.fill_rgbas = call.style_before.vmobject.fill_rgbas

====
